---------------------------- MODULE Spec2Model ----------------------------
(***************************************************************************)
(* EIP-4844 excess data gas fillers (fillers/eips/eip4844/                 *)
(* excess_data_gas.py): the fee-market functions, the three test-case      *)
(* generators, and the block validation the generated fixtures are run     *)
(* against.                                                                *)
(*                                                                         *)
(* Python's int is unbounded.  Blob counts and excess data gas values stay *)
(* far below 2^31 within the bounds of this model and are TLA+ integers.   *)
(* Prices, fees and balances do not (2225652 * excess already exceeds      *)
(* 2^31), so they are natural numbers written as sequences of base-Base    *)
(* digits, least significant first, without leading zeros (zero is <<>>).  *)
(***************************************************************************)
EXTENDS Integers, Sequences, FiniteSets, TLC

VARIABLES
    head_excess,   \* chain: the excess data gas of the latest block header
    last_block,    \* chain: None, or the latest block's parent excess and blobs
    fn,            \* function call: the function under call
    args,          \* function call: its arguments
    ret,           \* function call: None, or what the call produced
    frame,         \* function call: None, or the locals of fake_exponential
    test,          \* fillers: the test function that runs
    next_case,     \* fillers: the index of its next test case
    fixture,       \* fillers: None, or what generate() last produced
    pc,            \* fillers: "fill", "block" (the fixture's block is under
                   \* validation), "raised" or "idle"
    state,         \* block: the committed balances of sender and destination
    work,          \* block: the balances the block's transactions work on
    tx_idx,        \* block: the number of transactions validated so far
    blobs_so_far,  \* block: the blobs of the transactions validated so far
    verdict        \* block: None, or the verdict on the block

chainVars == <<head_excess, last_block>>
callVars == <<fn, args, ret, frame>>
fillVars == <<test, next_case, fixture, pc>>
blockVars == <<state, work, tx_idx, blobs_so_far, verdict>>
vars == <<chainVars, callVars, fillVars, blockVars>>

----------------------------------------------------------------------------
(* Protocol constants, excess_data_gas.py:25-32 *)

DATAHASH_GAS_COST == 3
MIN_DATA_GASPRICE == 1
DATA_GAS_PER_BLOB == 131072
MAX_DATA_GAS_PER_BLOCK == 524288
TARGET_DATA_GAS_PER_BLOCK == 262144
MAX_BLOBS_PER_BLOCK == MAX_DATA_GAS_PER_BLOCK \div DATA_GAS_PER_BLOB
TARGET_BLOBS_PER_BLOCK == TARGET_DATA_GAS_PER_BLOCK \div DATA_GAS_PER_BLOB
DATA_GASPRICE_UPDATE_FRACTION == 2225652

----------------------------------------------------------------------------
(* Unbounded natural-number arithmetic (Python int: +, -, *, //, <=) *)

Base == 10000

RECURSIVE FromInt(_)
FromInt(n) == IF n = 0 THEN <<>> ELSE <<n % Base>> \o FromInt(n \div Base)

(* TLC passes operator arguments unevaluated and, inside ENABLED, evaluates
   them anew at every use.  Each operator below therefore binds its
   arguments with a set constructor over a singleton, which evaluates each
   of them once: "CHOOSE r \in { e(a) : a \in {A} } : TRUE" is e(A). *)

RECURSIVE Trim(_)
Trim(A) ==
    CHOOSE r \in
        { IF a = <<>> THEN <<>>
          ELSE IF a[Len(a)] = 0 THEN Trim(SubSeq(a, 1, Len(a) - 1))
          ELSE a :
            a \in {A} } : TRUE

RECURSIVE AddCarry(_, _, _)
AddCarry(A, B, C) ==
    CHOOSE r \in
        { IF a = <<>> /\ b = <<>> THEN (IF c = 0 THEN <<>> ELSE <<c>>)
          ELSE LET x == IF a = <<>> THEN 0 ELSE Head(a)
                   y == IF b = <<>> THEN 0 ELSE Head(b)
                   s == x + y + c
               IN  <<s % Base>> \o AddCarry(IF a = <<>> THEN <<>> ELSE Tail(a),
                                            IF b = <<>> THEN <<>> ELSE Tail(b),
                                            s \div Base) :
            a \in {A}, b \in {B}, c \in {C} } : TRUE

BigAdd(a, b) == AddCarry(a, b, 0)

RECURSIVE SubBorrow(_, _, _)
SubBorrow(A, B, C) ==
    CHOOSE r \in
        { IF a = <<>> THEN <<>>
          ELSE LET y == IF b = <<>> THEN 0 ELSE Head(b)
                   d == Head(a) - y - c
               IN  <<d % Base>> \o SubBorrow(Tail(a),
                                             IF b = <<>> THEN <<>> ELSE Tail(b),
                                             IF d < 0 THEN 1 ELSE 0) :
            a \in {A}, b \in {B}, c \in {C} } : TRUE

(* a - b for a >= b *)
BigSub(a, b) == Trim(SubBorrow(a, b, 0))

RECURSIVE LeqFrom(_, _, _)
LeqFrom(a, b, k) ==
    IF k = 0 THEN TRUE
    ELSE IF a[k] # b[k] THEN a[k] < b[k]
    ELSE LeqFrom(a, b, k - 1)

BigLeq(A, B) ==
    CHOOSE r \in
        { IF Len(a) # Len(b) THEN Len(a) < Len(b) ELSE LeqFrom(a, b, Len(a)) :
            a \in {A}, b \in {B} } : TRUE

BigLess(a, b) == ~BigLeq(b, a)

RECURSIVE MulDigit(_, _, _)
MulDigit(A, M, C) ==
    CHOOSE r \in
        { IF a = <<>> THEN (IF c = 0 THEN <<>> ELSE <<c>>)
          ELSE LET p == Head(a) * m + c
               IN  <<p % Base>> \o MulDigit(Tail(a), m, p \div Base) :
            a \in {A}, m \in {M}, c \in {C} } : TRUE

BigMulDigit(a, m) == IF m = 0 THEN <<>> ELSE MulDigit(a, m, 0)

Shift(A) ==
    CHOOSE r \in { IF a = <<>> THEN <<>> ELSE <<0>> \o a : a \in {A} } : TRUE

RECURSIVE BigMul(_, _)
BigMul(A, B) ==
    IF A = <<>> THEN <<>>
    ELSE CHOOSE r \in
             { IF b = <<>> THEN <<>>
               ELSE BigAdd(BigMulDigit(a, Head(b)),
                           Shift(BigMul(a, Tail(b)))) :
                 a \in {A}, b \in {B} } : TRUE

(* the largest q in lo..hi with q * b <= r (q = lo satisfies it) *)
RECURSIVE QuotDigit(_, _, _, _)
QuotDigit(r, b, LO, HI) ==
    CHOOSE q \in
        { IF lo = hi THEN lo
          ELSE LET mid == (lo + hi + 1) \div 2
               IN  IF BigLeq(BigMulDigit(b, mid), r)
                   THEN QuotDigit(r, b, mid, hi)
                   ELSE QuotDigit(r, b, lo, mid - 1) :
            lo \in {LO}, hi \in {HI} } : TRUE

(* one step of the long division: d is the quotient digit of the running
   remainder r1 *)
RECURSIVE DivFrom(_, _, _, _, _)
DivDigit(a, b, k, q, r1, D) ==
    CHOOSE res \in
        { DivFrom(a, b, k - 1, <<d>> \o q, BigSub(r1, BigMulDigit(b, d))) :
            d \in {D} } : TRUE

(* long division of a by b > 0, from the most significant digit a[k] down:
   q collects the quotient digits, r is the running remainder *)
DivFrom(a, b, k, Q, R) ==
    CHOOSE res \in
        { IF k = 0 THEN [quot |-> Trim(q), rem |-> r]
          ELSE DivDigit(a, b, k, q, r1,
                        IF Len(r1) < Len(b) THEN 0
                        ELSE QuotDigit(r1, b, 0, Base - 1)) :
            q \in {Q}, r \in {R},
            r1 \in {IF k = 0 THEN <<>> ELSE Trim(<<a[k]>> \o R)} } : TRUE

BigDivMod(A, B) ==
    CHOOSE res \in
        { DivFrom(a, b, Len(a), <<>>, <<>>) : a \in {A}, b \in {B} } : TRUE

(* a // b *)
BigDiv(a, b) == BigDivMod(a, b).quot

(* a % b *)
BigMod(a, b) == BigDivMod(a, b).rem

----------------------------------------------------------------------------
(* The fee-market functions, excess_data_gas.py:35-102 *)

(* The loop of fake_exponential runs on the locals i, output and
   numerator_accumulator. *)
fake_exponential_start(factor, denominator) ==
    [i |-> 1, output |-> <<>>,
     numerator_accumulator |-> BigMul(factor, denominator)]

(* mutant: the quotient is rounded up, so a positive accumulator never
   reaches 0 *)
fake_exponential_step_rounds_up(s, numerator, denominator) ==
    LET qr == BigDivMod(BigMul(s.numerator_accumulator, numerator),
                        BigMul(denominator, FromInt(s.i)))
    IN  [i |-> s.i + 1,
         output |-> BigAdd(s.output, s.numerator_accumulator),
         numerator_accumulator |->
             IF qr.rem = <<>> THEN qr.quot ELSE BigAdd(qr.quot, FromInt(1))]

(* one iteration of the while loop *)
fake_exponential_step(s, numerator, denominator) ==
    [i |-> s.i + 1,
     output |-> BigAdd(s.output, s.numerator_accumulator),
     numerator_accumulator |->
         BigDiv(BigMul(s.numerator_accumulator, numerator),
                BigMul(denominator, FromInt(s.i)))]

(* mutant: "output = numerator_accumulator" for "output += ..." *)
fake_exponential_step_lost_sum(s, numerator, denominator) ==
    [i |-> s.i + 1,
     output |-> s.numerator_accumulator,
     numerator_accumulator |->
         BigDiv(BigMul(s.numerator_accumulator, numerator),
                BigMul(denominator, FromInt(s.i)))]

(* mutant: the accumulator is updated before it is added to output, so the
   first term (factor * denominator) is never counted *)
fake_exponential_step_skip_first(s, numerator, denominator) ==
    LET next_accumulator ==
            BigDiv(BigMul(s.numerator_accumulator, numerator),
                   BigMul(denominator, FromInt(s.i)))
    IN  [i |-> s.i + 1,
         output |-> BigAdd(s.output, next_accumulator),
         numerator_accumulator |-> next_accumulator]

RECURSIVE fake_exponential_loop_lost_sum(_, _, _)
fake_exponential_loop_lost_sum(s, numerator, denominator) ==
    IF BigLess(<<>>, s.numerator_accumulator)
    THEN fake_exponential_loop_lost_sum(
             fake_exponential_step_lost_sum(s, numerator, denominator),
             numerator, denominator)
    ELSE s

RECURSIVE fake_exponential_loop_skip_first(_, _, _)
fake_exponential_loop_skip_first(s, numerator, denominator) ==
    IF BigLess(<<>>, s.numerator_accumulator)
    THEN fake_exponential_loop_skip_first(
             fake_exponential_step_skip_first(s, numerator, denominator),
             numerator, denominator)
    ELSE s

(* while numerator_accumulator > 0: the locals when the loop is left *)
RECURSIVE fake_exponential_loop(_, _, _)
fake_exponential_loop(s, numerator, denominator) ==
    IF BigLess(<<>>, s.numerator_accumulator)
    THEN fake_exponential_loop(
             fake_exponential_step(s, numerator, denominator),
             numerator, denominator)
    ELSE s

fake_exponential_lost_sum(factor, numerator, denominator) ==
    BigDiv(fake_exponential_loop_lost_sum(
               fake_exponential_start(factor, denominator),
               numerator, denominator).output,
           denominator)

fake_exponential_skip_first(factor, numerator, denominator) ==
    BigDiv(fake_exponential_loop_skip_first(
               fake_exponential_start(factor, denominator),
               numerator, denominator).output,
           denominator)

fake_exponential(factor, numerator, denominator) ==
    BigDiv(fake_exponential_loop(
               fake_exponential_start(factor, denominator),
               numerator, denominator).output,
           denominator)

get_data_gasprice(excess_data_gas) ==
    fake_exponential(FromInt(MIN_DATA_GASPRICE),
                     FromInt(excess_data_gas),
                     FromInt(DATA_GASPRICE_UPDATE_FRACTION))

(* mutant: the blob count is not scaled to data gas *)
get_data_gasprice_from_blobs_unscaled(excess_blobs) ==
    fake_exponential(FromInt(MIN_DATA_GASPRICE),
                     FromInt(excess_blobs),
                     FromInt(DATA_GASPRICE_UPDATE_FRACTION))

get_data_gasprice_from_blobs(excess_blobs) ==
    fake_exponential(FromInt(MIN_DATA_GASPRICE),
                     FromInt(excess_blobs * DATA_GAS_PER_BLOB),
                     FromInt(DATA_GASPRICE_UPDATE_FRACTION))

(* Optional[T]: None is the empty tuple, a present value x is <<x>> *)
None == <<>>

Some(x) == <<x>>

get_total_data_gas(tx) ==
    IF tx.blob_versioned_hashes = None
    THEN 0
    ELSE DATA_GAS_PER_BLOB * Len(tx.blob_versioned_hashes[1])

(* mutant: the fee of one blob, whatever the number of blobs *)
calc_data_fee_one_blob(tx, excess_data_gas) ==
    BigMul(FromInt(DATA_GAS_PER_BLOB), get_data_gasprice(excess_data_gas))

calc_data_fee(tx, excess_data_gas) ==
    BigMul(FromInt(get_total_data_gas(tx)), get_data_gasprice(excess_data_gas))

(* mutant: the result is not floored at zero *)
calc_excess_data_gas_unsaturated(parent_excess_data_gas, new_blobs) ==
    parent_excess_data_gas + new_blobs * DATA_GAS_PER_BLOB
        - TARGET_DATA_GAS_PER_BLOCK

(* mutant: the floor test forgets the gas the block consumed *)
calc_excess_data_gas_parent_only(parent_excess_data_gas, new_blobs) ==
    IF parent_excess_data_gas < TARGET_DATA_GAS_PER_BLOCK
    THEN 0
    ELSE parent_excess_data_gas + new_blobs * DATA_GAS_PER_BLOB
             - TARGET_DATA_GAS_PER_BLOCK

(* mutant: the target is not subtracted *)
calc_excess_data_gas_no_target(parent_excess_data_gas, new_blobs) ==
    IF parent_excess_data_gas + new_blobs * DATA_GAS_PER_BLOB
           < TARGET_DATA_GAS_PER_BLOCK
    THEN 0
    ELSE parent_excess_data_gas + new_blobs * DATA_GAS_PER_BLOB

(* mutant: the block maximum is subtracted in place of the target *)
calc_excess_data_gas_subtracts_max(parent_excess_data_gas, new_blobs) ==
    IF parent_excess_data_gas + new_blobs * DATA_GAS_PER_BLOB
           < TARGET_DATA_GAS_PER_BLOCK
    THEN 0
    ELSE parent_excess_data_gas + new_blobs * DATA_GAS_PER_BLOB
             - MAX_DATA_GAS_PER_BLOCK

(* mutant: below the target the parent's excess is kept instead of 0 *)
calc_excess_data_gas_keeps_parent(parent_excess_data_gas, new_blobs) ==
    IF parent_excess_data_gas + new_blobs * DATA_GAS_PER_BLOB
           < TARGET_DATA_GAS_PER_BLOCK
    THEN parent_excess_data_gas
    ELSE parent_excess_data_gas + new_blobs * DATA_GAS_PER_BLOB
             - TARGET_DATA_GAS_PER_BLOCK

calc_excess_data_gas(parent_excess_data_gas, new_blobs) ==
    LET consumed_data_gas == new_blobs * DATA_GAS_PER_BLOB
    IN  IF parent_excess_data_gas + consumed_data_gas < TARGET_DATA_GAS_PER_BLOCK
        THEN 0
        ELSE parent_excess_data_gas + consumed_data_gas
                 - TARGET_DATA_GAS_PER_BLOCK

----------------------------------------------------------------------------
(* Bounds of the model *)

MaxGenesisBlobs == 3
MaxNewBlobs == 6
MaxChainExcessBlobs == 12

----------------------------------------------------------------------------
(* The accumulator along a chain: every block's header carries
   calc_excess_data_gas(parent excess, blobs of the block).  The genesis value
   is configured by the environment (Environment(excess_data_gas=...)). *)

GenesisExcess ==
    { k * DATA_GAS_PER_BLOB + off :
        k \in 0..MaxGenesisBlobs, off \in {0, 1, DATA_GAS_PER_BLOB - 1} }

NoCall == "none"

NoAccounts == [sender |-> <<>>, destination |-> <<>>]

CallIdle == fn = NoCall /\ args = None /\ ret = None /\ frame = None

FillIdle ==
    /\ test = NoCall /\ next_case = 1 /\ fixture = None /\ pc = "idle"
    /\ state = NoAccounts /\ work = NoAccounts
    /\ tx_idx = 0 /\ blobs_so_far = 0 /\ verdict = None

ChainInit ==
    /\ head_excess \in GenesisExcess
    /\ last_block = None
    /\ CallIdle
    /\ FillIdle

AddBlock(new_blobs) ==
    LET excess_data_gas == calc_excess_data_gas(head_excess, new_blobs)
    IN  /\ excess_data_gas <= MaxChainExcessBlobs * DATA_GAS_PER_BLOB
        /\ head_excess' = excess_data_gas
        /\ last_block' = Some([parent_excess_data_gas |-> head_excess,
                               new_blobs |-> new_blobs])
        /\ UNCHANGED <<callVars, fillVars, blockVars>>

ChainNext == \E new_blobs \in 0..MaxNewBlobs : AddBlock(new_blobs)

SpecExcess == ChainInit /\ [][ChainNext]_vars

----------------------------------------------------------------------------
(* Transactions and their validation *)

(* [to_hash_bytes(x) for x in range(n)] *)
blob_hashes(n) == [x \in 1..n |-> x - 1]

(* the fields of Transaction that fee validation reads (to,
   max_priority_fee_per_gas and access_list are left out) *)
Transaction(ty, nonce, value, gas_limit, max_fee_per_gas, max_fee_per_data_gas, blob_versioned_hashes, error) ==
    [ty |-> ty, nonce |-> nonce, value |-> value, gas_limit |-> gas_limit,
     max_fee_per_gas |-> max_fee_per_gas,
     max_fee_per_data_gas |-> max_fee_per_data_gas,
     blob_versioned_hashes |-> blob_versioned_hashes,
     error |-> error]

tx_blob_count(tx) ==
    IF tx.blob_versioned_hashes = None THEN 0
    ELSE Len(tx.blob_versioned_hashes[1])

(* gas cost + value + blob fee at the price of the parent's accumulator *)
tx_cost(tx, excess_at_parent) ==
    BigAdd(BigAdd(BigMul(tx.gas_limit, tx.max_fee_per_gas), tx.value),
           calc_data_fee(tx, excess_at_parent))

Accepted == "accepted"
TooManyBlobs == "too_many_blobs"
InsufficientMaxFeePerDataGas == "insufficient max fee per data gas"
InsufficientBalance == "insufficient balance"
ExcessBlobGasMismatch == "invalid excess data gas"

(* The transaction fee validator: the checks in order, the first failing one
   gives the reason.  blobs_before is the blob count of the transactions
   that precede tx in the block. *)
validate_tx(tx, excess_at_parent, blobs_before, balance) ==
    IF tx_blob_count(tx) = 0
    THEN Accepted
    ELSE IF (blobs_before + tx_blob_count(tx)) * DATA_GAS_PER_BLOB
                > MAX_DATA_GAS_PER_BLOCK
    THEN TooManyBlobs
    ELSE IF \/ tx.max_fee_per_data_gas = None
            \/ BigLess(tx.max_fee_per_data_gas[1],
                       get_data_gasprice(excess_at_parent))
    THEN InsufficientMaxFeePerDataGas
    ELSE IF BigLess(balance, tx_cost(tx, excess_at_parent))
    THEN InsufficientBalance
    ELSE Accepted

----------------------------------------------------------------------------
(* Calls of the fee functions on inputs drawn from bounded sets *)

MaxExcessBlobs == 13
MaxTxBlobs == 5
MaxPriceBlobs == 15

ExcessValues ==
    { k * DATA_GAS_PER_BLOB + off :
        k \in 0..MaxExcessBlobs, off \in {0, 1, DATA_GAS_PER_BLOB \div 2} }

(* the blob lists a transaction may carry: absent, or 0..MaxTxBlobs hashes *)
BlobLists == {None} \cup { Some(blob_hashes(n)) : n \in 0..MaxTxBlobs }

(* a type 5 transaction as the generators build it: value 1, 21000 gas at 7 *)
BlobTx(max_fee_per_data_gas, blob_versioned_hashes) ==
    Transaction(5, 0, FromInt(1), FromInt(21000), FromInt(7),
                max_fee_per_data_gas, blob_versioned_hashes, None)

PriceCalls ==
    { c \in [lower : ExcessValues, upper : ExcessValues] : c.lower <= c.upper }

FeeCalls ==
    { [tx |-> BlobTx(Some(FromInt(1)), hashes), excess_data_gas |-> e] :
        hashes \in BlobLists, e \in ExcessValues }

(* a parent excess and two blob counts, the lower one first *)
ExcessCalls ==
    { c \in [parent_excess_data_gas : ExcessValues,
             lower : 0..MaxNewBlobs, upper : 0..MaxNewBlobs] :
        c.lower <= c.upper }

(* an excess blob count, as the test cases give it *)
PriceFromBlobsCalls == { [excess_blobs |-> n] : n \in 0..MaxPriceBlobs }

ValidateCalls ==
    { [tx |-> BlobTx(fee, Some(blob_hashes(n))), excess_at_parent |-> e,
       blobs_before |-> before, balance_modifier |-> modifier] :
        fee \in {None, Some(<<>>), Some(FromInt(1)), Some(FromInt(2))},
        n \in 1..MaxTxBlobs,
        e \in ExcessValues,
        before \in {0, MAX_BLOBS_PER_BLOCK - 1},
        modifier \in {-1, 0} }

CallInit ==
    /\ head_excess = 0 /\ last_block = None
    /\ FillIdle
    /\ ret = None /\ frame = None
    /\ \/ fn = "get_data_gasprice" /\ args \in PriceCalls
       \/ fn = "calc_data_fee" /\ args \in FeeCalls
       \/ fn = "validate_tx" /\ args \in ValidateCalls
       \/ fn = "calc_excess_data_gas" /\ args \in ExcessCalls
       \/ fn = "get_data_gasprice_from_blobs" /\ args \in PriceFromBlobsCalls

(* get_data_gasprice at two accumulator values, the lower one first *)
CallGetDataGasprice ==
    /\ fn = "get_data_gasprice" /\ ret = None
    /\ ret' = Some([lower |-> get_data_gasprice(args.lower),
                    upper |-> get_data_gasprice(args.upper)])
    /\ UNCHANGED <<chainVars, fillVars, blockVars, fn, args, frame>>

ZeroDivisionError == "ZeroDivisionError"

(* calc_data_fee, and the fee divided back by the transaction's data gas:
   Python's // and % raise ZeroDivisionError on a zero divisor *)
CallCalcDataFee ==
    /\ fn = "calc_data_fee" /\ ret = None
    /\ LET fee == calc_data_fee(args.tx, args.excess_data_gas)
           total == get_total_data_gas(args.tx)
       IN  ret' = Some([fee |-> fee,
                        total_data_gas |-> total,
                        raised |-> IF total = 0 THEN Some(ZeroDivisionError)
                                   ELSE None,
                        quot |-> IF total = 0 THEN None
                                 ELSE Some(BigDiv(fee, FromInt(total))),
                        rem |-> IF total = 0 THEN None
                                ELSE Some(BigMod(fee, FromInt(total)))])
    /\ UNCHANGED <<chainVars, fillVars, blockVars, fn, args, frame>>

(* the sender's balance: the exact cost of the transaction at the parent's
   price, plus the modifier *)
sender_balance(tx, excess_at_parent, modifier) ==
    IF modifier < 0
    THEN BigSub(tx_cost(tx, excess_at_parent), FromInt(-modifier))
    ELSE BigAdd(tx_cost(tx, excess_at_parent), FromInt(modifier))

CallValidateTx ==
    /\ fn = "validate_tx" /\ ret = None
    /\ ret' = Some(validate_tx(args.tx, args.excess_at_parent,
                               args.blobs_before,
                               sender_balance(args.tx, args.excess_at_parent,
                                              args.balance_modifier)))
    /\ UNCHANGED <<chainVars, fillVars, blockVars, fn, args, frame>>

(* calc_excess_data_gas of one parent at two blob counts *)
CallCalcExcessDataGas ==
    /\ fn = "calc_excess_data_gas" /\ ret = None
    /\ ret' = Some([lower |-> calc_excess_data_gas(
                                  args.parent_excess_data_gas, args.lower),
                    upper |-> calc_excess_data_gas(
                                  args.parent_excess_data_gas, args.upper)])
    /\ UNCHANGED <<chainVars, fillVars, blockVars, fn, args, frame>>

(* get_data_gasprice_from_blobs, and the verdict on a one-blob transaction
   with max_fee_per_data_gas = 1 whose sender holds its exact cost, against a
   parent of that many excess blobs *)
CallGetDataGaspriceFromBlobs ==
    /\ fn = "get_data_gasprice_from_blobs" /\ ret = None
    /\ LET tx == BlobTx(Some(FromInt(1)), Some(blob_hashes(1)))
           excess_at_parent == args.excess_blobs * DATA_GAS_PER_BLOB
       IN  ret' = Some([price |->
                           get_data_gasprice_from_blobs(args.excess_blobs),
                       verdict |->
                           validate_tx(tx, excess_at_parent, 0,
                                       sender_balance(tx, excess_at_parent,
                                                      0))])
    /\ UNCHANGED <<chainVars, fillVars, blockVars, fn, args, frame>>

CallNext ==
    \/ CallGetDataGaspriceFromBlobs
    \/ CallGetDataGasprice
    \/ CallCalcDataFee
    \/ CallValidateTx
    \/ CallCalcExcessDataGas

SpecFee == CallInit /\ [][CallNext]_vars

----------------------------------------------------------------------------
(* One call of fake_exponential, run statement by statement *)

MaxFactor == 2
MaxNumerator == 12
MaxDenominator == 3
MaxLoopExcessBlobs == 20

(* the cap on the loop counter i *)
MaxIterations == 64

(* small arguments, where numerator / denominator reaches MaxNumerator, and
   the arguments get_data_gasprice_from_blobs passes *)
ExponentialCalls ==
    { [factor |-> FromInt(f), numerator |-> FromInt(n),
       denominator |-> FromInt(d)] :
        f \in 0..MaxFactor, n \in 0..MaxNumerator, d \in 1..MaxDenominator }
    \cup
    { [factor |-> FromInt(MIN_DATA_GASPRICE),
       numerator |-> FromInt(k * DATA_GAS_PER_BLOB),
       denominator |-> FromInt(DATA_GASPRICE_UPDATE_FRACTION)] :
        k \in 0..MaxLoopExcessBlobs }

LoopInit ==
    /\ head_excess = 0 /\ last_block = None
    /\ FillIdle
    /\ fn = "fake_exponential" /\ args \in ExponentialCalls
    /\ ret = None /\ frame = None

(* i = 1; output = 0; numerator_accumulator = factor * denominator *)
LoopEnter ==
    /\ fn = "fake_exponential" /\ ret = None /\ frame = None
    /\ frame' = Some(fake_exponential_start(args.factor, args.denominator))
    /\ UNCHANGED <<chainVars, fillVars, blockVars, fn, args, ret>>

(* while numerator_accumulator > 0: the loop body *)
LoopIterate ==
    /\ fn = "fake_exponential" /\ ret = None /\ frame # None
    /\ BigLess(<<>>, frame[1].numerator_accumulator)
    /\ frame[1].i <= MaxIterations
    /\ frame' = Some(fake_exponential_step(frame[1], args.numerator,
                                           args.denominator))
    /\ UNCHANGED <<chainVars, fillVars, blockVars, fn, args, ret>>

(* the loop condition fails: return output // denominator; frame keeps the
   locals as they are at the return *)
LoopReturn ==
    /\ fn = "fake_exponential" /\ ret = None /\ frame # None
    /\ ~BigLess(<<>>, frame[1].numerator_accumulator)
    /\ ret' = Some(BigDiv(frame[1].output, args.denominator))
    /\ UNCHANGED <<chainVars, fillVars, blockVars, fn, args, frame>>

LoopNext == LoopEnter \/ LoopIterate \/ LoopReturn

(* the interpreter runs the next statement of the call as long as there is
   one: weak fairness on the steps of the call *)
SpecLoop == LoopInit /\ [][LoopNext]_vars /\ WF_vars(LoopNext)

----------------------------------------------------------------------------
(* The test-case generators, excess_data_gas.py:105-582 *)

(* 10**40 *)
RECURSIVE BigPow(_, _)
BigPow(a, n) ==
    IF n = 0 THEN FromInt(1)
    ELSE IF n % 2 = 1 THEN BigMul(a, BigPow(a, n - 1))
    ELSE LET half == BigPow(a, n \div 2) IN BigMul(half, half)

(* BlockchainTest with its single block: the sender's balance (pre), the
   destination balance expected afterwards (post, None for post={}), the
   block's transactions, the header override (rlp_modifier), the expected
   block exception, and the genesis environment's excess data gas.  tag is
   kept where it is a plain string. *)
BlockchainTest(pre, post, txs, rlp_modifier, exception, genesis_environment, tag) ==
    [raised |-> None, pre |-> pre, post |-> post, txs |-> txs,
     rlp_modifier |-> rlp_modifier, exception |-> exception,
     genesis_environment |-> genesis_environment, tag |-> tag]

(* generate() left by "raise Exception(message)" *)
Raise(message) == [raised |-> Some(message)]

ExcessDataGasCalcTestCase(parent_excess_blobs, blobs) ==
    [parent_excess_blobs |-> parent_excess_blobs, blobs |-> blobs,
     block_base_fee |-> 7]

(* mutant: the transaction is priced with the block's own new accumulator *)
calc_case_data_gasprice_post(parent_excess_data_gas, excess_data_gas) ==
    get_data_gasprice(excess_data_gas)

(* data_gasprice of ExcessDataGasCalcTestCase.generate: the price at the
   parent's accumulator, not at the one the block produces *)
calc_case_data_gasprice(parent_excess_data_gas, excess_data_gas) ==
    get_data_gasprice(parent_excess_data_gas)

ExcessDataGasCalcTestCase_generate(self) ==
    LET parent_excess_data_gas == self.parent_excess_blobs * DATA_GAS_PER_BLOB
        excess_data_gas ==
            calc_excess_data_gas(parent_excess_data_gas, self.blobs)
        data_gasprice ==
            calc_case_data_gasprice(parent_excess_data_gas, excess_data_gas)
        tx_value == FromInt(1)
        tx_gas == FromInt(21000)
        fee_per_gas == FromInt(self.block_base_fee)
        data_cost ==
            BigMul(BigMul(data_gasprice, FromInt(DATA_GAS_PER_BLOB)),
                   FromInt(self.blobs))
        tx_exact_cost ==
            BigAdd(BigAdd(BigMul(tx_gas, fee_per_gas), tx_value), data_cost)
        tx == IF self.blobs > 0
              THEN Transaction(5, 0, tx_value, tx_gas, fee_per_gas,
                               Some(data_gasprice),
                               Some(blob_hashes(self.blobs)), None)
              ELSE Transaction(2, 0, tx_value, tx_gas, fee_per_gas,
                               None, None, None)
    IN  BlockchainTest(tx_exact_cost, Some(FromInt(1)), <<tx>>, None, None,
                       parent_excess_data_gas, None)

excess_data_gas_calc_test_cases ==
    << ExcessDataGasCalcTestCase(TARGET_BLOBS_PER_BLOCK - 1, 0),
       ExcessDataGasCalcTestCase(0, TARGET_BLOBS_PER_BLOCK - 1),
       ExcessDataGasCalcTestCase(0, TARGET_BLOBS_PER_BLOCK),
       ExcessDataGasCalcTestCase(0, MAX_BLOBS_PER_BLOCK),
       ExcessDataGasCalcTestCase(12, 1),
       ExcessDataGasCalcTestCase(11, TARGET_BLOBS_PER_BLOCK + 1),
       ExcessDataGasCalcTestCase(376, TARGET_BLOBS_PER_BLOCK + 1),
       ExcessDataGasCalcTestCase(377, 1),
       ExcessDataGasCalcTestCase(753, TARGET_BLOBS_PER_BLOCK + 1),
       ExcessDataGasCalcTestCase(754, 1) >>

InvalidExcessDataGasInHeaderTestCase(new_blobs, header_excess_data_gas, header_excess_blobs_delta, parent_excess_blobs) ==
    [new_blobs |-> new_blobs,
     header_excess_data_gas |-> header_excess_data_gas,
     header_excess_blobs_delta |-> header_excess_blobs_delta,
     parent_excess_blobs |-> parent_excess_blobs]

InvalidExcessDataGasInHeaderTestCase_generate(self) ==
    LET parent_excess_data_gas == self.parent_excess_blobs * DATA_GAS_PER_BLOB
        correct_excess_data_gas ==
            calc_excess_data_gas(parent_excess_data_gas, self.new_blobs)
        header_excess_data_gas ==
            IF self.header_excess_blobs_delta # None
            THEN Some(parent_excess_data_gas
                      + self.header_excess_blobs_delta[1] * DATA_GAS_PER_BLOB)
            ELSE self.header_excess_data_gas
        tx == IF self.new_blobs = 0
              THEN Transaction(2, 0, FromInt(1), FromInt(3000000),
                               FromInt(1000000), None, None, None)
              ELSE Transaction(5, 0, FromInt(1), FromInt(3000000),
                               FromInt(1000000),
                               Some(get_data_gasprice(parent_excess_data_gas)),
                               Some(blob_hashes(self.new_blobs)), None)
    IN  IF /\ self.header_excess_blobs_delta # None
           /\ self.header_excess_data_gas # None
        THEN Raise("test case is badly formatted")
        ELSE IF header_excess_data_gas = None
        THEN Raise("test case is badly formatted")
        ELSE IF header_excess_data_gas[1] = correct_excess_data_gas
        THEN Raise("invalid test case")
        ELSE BlockchainTest(BigPow(FromInt(10), 40), None, <<tx>>,
                            header_excess_data_gas,
                            Some("invalid excess data gas"),
                            parent_excess_data_gas, None)

(* the body of "for blob_count in range(MAX_BLOBS_PER_BLOCK + 1)" *)
invalid_header_cases_for(blob_count) ==
    << InvalidExcessDataGasInHeaderTestCase(blob_count, Some(0), None, 10),
       InvalidExcessDataGasInHeaderTestCase(
           blob_count, None, Some(-(TARGET_BLOBS_PER_BLOCK + 1)), 10),
       InvalidExcessDataGasInHeaderTestCase(
           blob_count, None, Some(TARGET_BLOBS_PER_BLOCK + 1), 10) >>
    \o (IF blob_count # TARGET_BLOBS_PER_BLOCK
        THEN << InvalidExcessDataGasInHeaderTestCase(
                    blob_count, None, Some(0), 10) >>
        ELSE << InvalidExcessDataGasInHeaderTestCase(
                    blob_count, None, Some(-1), 10),
                InvalidExcessDataGasInHeaderTestCase(
                    blob_count, None, Some(1), 10) >>)

(* the body of "for blob_count in range(1, TARGET_BLOBS_PER_BLOCK)" *)
below_target_case_for(blob_count) ==
    << InvalidExcessDataGasInHeaderTestCase(
           blob_count, None, Some(blob_count), 0) >>

(* test_cases after "for x in range(from, to)" with the given loop body *)
RECURSIVE header_cases_loop(_, _, _)
header_cases_loop(from, to, first_loop) ==
    IF from >= to THEN <<>>
    ELSE (IF first_loop THEN invalid_header_cases_for(from)
          ELSE below_target_case_for(from))
         \o header_cases_loop(from + 1, to, first_loop)

invalid_excess_data_gas_in_header_test_cases ==
    header_cases_loop(0, MAX_BLOBS_PER_BLOCK + 1, TRUE)
    \o header_cases_loop(1, TARGET_BLOBS_PER_BLOCK, FALSE)
    \o << InvalidExcessDataGasInHeaderTestCase(
              0, None, Some(TARGET_BLOBS_PER_BLOCK), 4346) >>

InvalidBlobTransactionTestCase(tag, parent_excess_blobs, blobs_per_tx, tx_error, tx_count, tx_max_data_gas_cost, account_balance_modifier) ==
    [tag |-> tag, parent_excess_blobs |-> parent_excess_blobs,
     blobs_per_tx |-> blobs_per_tx, tx_error |-> tx_error,
     tx_count |-> tx_count, tx_max_data_gas_cost |-> tx_max_data_gas_cost,
     account_balance_modifier |-> account_balance_modifier,
     block_base_fee |-> 7]

(* mutant: the error is put on the first transaction of the block *)
invalid_blob_tx_error_on_first(self, tx_i) ==
    IF tx_i = 0 THEN Some(self.tx_error) ELSE None

(* error=self.tx_error if tx_i == (self.tx_count - 1) else None *)
invalid_blob_tx_error(self, tx_i) ==
    IF tx_i = self.tx_count - 1 THEN Some(self.tx_error) ELSE None

InvalidBlobTransactionTestCase_generate(self) ==
    LET parent_excess_data_gas == self.parent_excess_blobs * DATA_GAS_PER_BLOB
        data_gasprice == get_data_gasprice(parent_excess_data_gas)
        tx_value == FromInt(1)
        tx_gas == FromInt(21000)
        fee_per_gas == FromInt(self.block_base_fee)
        data_cost ==
            BigMul(BigMul(data_gasprice, FromInt(DATA_GAS_PER_BLOB)),
                   FromInt(self.blobs_per_tx))
        tx_exact_cost ==
            BigAdd(BigAdd(BigMul(tx_gas, fee_per_gas), tx_value), data_cost)
        max_fee_per_data_gas ==
            IF self.tx_max_data_gas_cost # None
            THEN self.tx_max_data_gas_cost[1]
            ELSE data_gasprice
        txs == [k \in 1..self.tx_count |->
                   Transaction(5, k - 1, tx_value, tx_gas, fee_per_gas,
                               Some(max_fee_per_data_gas),
                               Some(blob_hashes(self.blobs_per_tx)),
                               invalid_blob_tx_error(self, k - 1))]
        total_account_minimum_balance ==
            BigMul(FromInt(self.tx_count), tx_exact_cost)
        balance ==
            IF self.account_balance_modifier < 0
            THEN BigSub(total_account_minimum_balance,
                        FromInt(-self.account_balance_modifier))
            ELSE BigAdd(total_account_minimum_balance,
                        FromInt(self.account_balance_modifier))
    IN  BlockchainTest(balance, None, txs, None, Some(self.tx_error),
                       parent_excess_data_gas, Some(self.tag))

invalid_blob_txs_test_cases ==
    << InvalidBlobTransactionTestCase(
           "insufficient_max_fee_per_data_gas", 15, 1,
           "insufficient max fee per data gas", 1, Some(FromInt(1)), 0),
       InvalidBlobTransactionTestCase(
           "insufficient_balance_sufficient_fee", 15, 1,
           "insufficient max fee per data gas", 1, Some(FromInt(100)), -1),
       InvalidBlobTransactionTestCase(
           "zero_max_fee_per_data_gas", 0, 1,
           "insufficient max fee per data gas", 1, Some(FromInt(0)), 0),
       InvalidBlobTransactionTestCase(
           "blob_overflow", 10, 5, "too_many_blobs", 1, None, 0),
       InvalidBlobTransactionTestCase(
           "multi_tx_blob_overflow", 10, 1, "too_many_blobs", 5, None, 0) >>

Tests ==
    { "test_excess_data_gas_calc",
      "test_invalid_excess_data_gas_in_header",
      "test_invalid_blob_txs" }

test_cases(t) ==
    CASE t = "test_excess_data_gas_calc" -> excess_data_gas_calc_test_cases
      [] t = "test_invalid_excess_data_gas_in_header" ->
             invalid_excess_data_gas_in_header_test_cases
      [] t = "test_invalid_blob_txs" -> invalid_blob_txs_test_cases

(* tc.generate() *)
generate(t, tc) ==
    CASE t = "test_excess_data_gas_calc" ->
             ExcessDataGasCalcTestCase_generate(tc)
      [] t = "test_invalid_excess_data_gas_in_header" ->
             InvalidExcessDataGasInHeaderTestCase_generate(tc)
      [] t = "test_invalid_blob_txs" ->
             InvalidBlobTransactionTestCase_generate(tc)

----------------------------------------------------------------------------
(* The fillers and the validation of each fixture's block.  A test function
   yields tc.generate() for each of its test cases in turn; the block of the
   fixture is then validated against the fixture's genesis: its transactions
   in order by validate_tx at the parent's accumulator, then the header. *)

Valid == "valid"

FillInit ==
    /\ head_excess = 0 /\ last_block = None
    /\ CallIdle
    /\ test \in Tests
    /\ next_case = 1 /\ fixture = None /\ pc = "fill"
    /\ state = NoAccounts /\ work = NoAccounts
    /\ tx_idx = 0 /\ blobs_so_far = 0 /\ verdict = None

(* for tc in test_cases: yield tc.generate() *)
Generate ==
    /\ pc = "fill"
    /\ next_case <= Len(test_cases(test))
    /\ \E made \in {generate(test, test_cases(test)[next_case])} :
       LET accounts == [sender |-> made.pre, destination |-> <<>>]
       IN  /\ fixture' = Some(made)
           /\ next_case' = next_case + 1
           /\ IF made.raised # None
              THEN /\ pc' = "raised"
                   /\ UNCHANGED blockVars
              ELSE /\ pc' = "block"
                   /\ state' = accounts
                   /\ work' = accounts
                   /\ tx_idx' = 0
                   /\ blobs_so_far' = 0
                   /\ verdict' = None
    /\ UNCHANGED <<chainVars, callVars, test>>

(* the reason a transaction of the block is refused for, or Accepted: the
   fee validator's, and a transaction it passes must still be affordable *)
tx_verdict(tx, excess_at_parent, blobs_before, balance) ==
    LET reason == validate_tx(tx, excess_at_parent, blobs_before, balance)
    IN  IF reason = Accepted /\ BigLess(balance, tx_cost(tx, excess_at_parent))
        THEN InsufficientBalance
        ELSE reason

(* the balances after tx: the sender pays the cost, the destination gets
   the value *)
apply_tx(accounts, tx, excess_at_parent) ==
    [sender |-> BigSub(accounts.sender, tx_cost(tx, excess_at_parent)),
     destination |-> BigAdd(accounts.destination, tx.value)]

(* mutant: a refused transaction leaves the work of the transactions before
   it in the committed state *)
ApplyTx_commits_partial ==
    /\ pc = "block" /\ verdict = None
    /\ tx_idx < Len(fixture[1].txs)
    /\ LET tx == fixture[1].txs[tx_idx + 1]
           parent == fixture[1].genesis_environment
           reason == tx_verdict(tx, parent, blobs_so_far, work.sender)
       IN  IF reason = Accepted
           THEN /\ work' = apply_tx(work, tx, parent)
                /\ tx_idx' = tx_idx + 1
                /\ blobs_so_far' = blobs_so_far + tx_blob_count(tx)
                /\ UNCHANGED <<state, verdict>>
           ELSE /\ verdict' = Some(reason)
                /\ state' = work
                /\ UNCHANGED <<work, tx_idx, blobs_so_far>>
    /\ UNCHANGED <<chainVars, callVars, fillVars>>

(* the next transaction of the block: validated against the parent's
   accumulator and the blobs of the transactions before it; a refusal
   rejects the block *)
ApplyTx ==
    /\ pc = "block" /\ verdict = None
    /\ tx_idx < Len(fixture[1].txs)
    /\ LET tx == fixture[1].txs[tx_idx + 1]
           parent == fixture[1].genesis_environment
           reason == tx_verdict(tx, parent, blobs_so_far, work.sender)
       IN  IF reason = Accepted
           THEN /\ work' = apply_tx(work, tx, parent)
                /\ tx_idx' = tx_idx + 1
                /\ blobs_so_far' = blobs_so_far + tx_blob_count(tx)
                /\ UNCHANGED <<state, verdict>>
           ELSE /\ verdict' = Some(reason)
                /\ UNCHANGED <<state, work, tx_idx, blobs_so_far>>
    /\ UNCHANGED <<chainVars, callVars, fillVars>>

(* the accumulator the block's header declares: the override of the fixture,
   or the value an honest builder computes *)
declared_excess(made, expected) ==
    IF made.rlp_modifier = None THEN expected ELSE made.rlp_modifier[1]

(* after the last transaction: the header's accumulator is compared with
   calc_excess_data_gas(parent, blobs of the block); only a block that
   passes is committed *)
ValidateHeader ==
    /\ pc = "block" /\ verdict = None
    /\ tx_idx = Len(fixture[1].txs)
    /\ LET expected ==
               calc_excess_data_gas(fixture[1].genesis_environment,
                                    blobs_so_far)
       IN  IF declared_excess(fixture[1], expected) # expected
           THEN /\ verdict' = Some(ExcessBlobGasMismatch)
                /\ UNCHANGED state
           ELSE /\ verdict' = Some(Valid)
                /\ state' = work
    /\ UNCHANGED <<chainVars, callVars, fillVars, work, tx_idx, blobs_so_far>>

(* the verdict is final; the test function goes on to its next test case *)
NextCase ==
    /\ pc = "block" /\ verdict # None
    /\ pc' = "fill"
    /\ UNCHANGED <<chainVars, callVars, test, next_case, fixture, blockVars>>

Next == Generate \/ ApplyTx \/ ValidateHeader \/ NextCase

Spec == FillInit /\ [][Next]_vars

----------------------------------------------------------------------------
(* Claims *)

LastParent == last_block[1].parent_excess_data_gas
LastBlobs == last_block[1].new_blobs

(* C1: calc_excess_data_gas(parent, blobs) is 0 when
   parent + blobs * DATA_GAS_PER_BLOB is below TARGET_DATA_GAS_PER_BLOCK and
   is that sum minus TARGET_DATA_GAS_PER_BLOCK otherwise; it is never
   negative. *)
C1_SaturatingRule ==
    last_block # None =>
        LET total == LastParent + LastBlobs * DATA_GAS_PER_BLOB
        IN  /\ total < TARGET_DATA_GAS_PER_BLOCK => head_excess = 0
            /\ total >= TARGET_DATA_GAS_PER_BLOCK =>
                   head_excess = total - TARGET_DATA_GAS_PER_BLOCK
            /\ head_excess >= 0

(* a block with blobs on a non-zero parent excess that floors at zero *)
C1_Witness ==
    /\ last_block # None
    /\ LastParent > 0 /\ LastBlobs >= 1
    /\ LastParent + LastBlobs * DATA_GAS_PER_BLOB < TARGET_DATA_GAS_PER_BLOCK
    /\ head_excess = 0

(* C3: a block that carries exactly TARGET_BLOBS_PER_BLOCK blobs leaves the
   accumulator as its parent had it, whatever the parent's value. *)
C3_TargetLeavesUnchanged ==
    (last_block # None /\ LastBlobs = TARGET_BLOBS_PER_BLOCK) =>
        head_excess = LastParent

(* a target block on a parent excess that is positive and below the target *)
C3_Witness ==
    /\ last_block # None
    /\ LastBlobs = TARGET_BLOBS_PER_BLOCK
    /\ LastParent > 0 /\ LastParent < TARGET_DATA_GAS_PER_BLOCK
    /\ head_excess = LastParent

Returned(f) == fn = f /\ ret # None

(* C4: get_data_gasprice(0) is MIN_DATA_GASPRICE, and for e1 <= e2 the price
   at e1 is at most the price at e2. *)
C4_PriceMonotone ==
    Returned("get_data_gasprice") =>
        /\ BigLeq(ret[1].lower, ret[1].upper)
        /\ args.lower = 0 => ret[1].lower = FromInt(MIN_DATA_GASPRICE)
        /\ args.upper = 0 => ret[1].upper = FromInt(MIN_DATA_GASPRICE)

(* two non-zero accumulator values whose prices differ *)
C4_Witness ==
    /\ Returned("get_data_gasprice")
    /\ args.lower > 0
    /\ BigLess(ret[1].lower, ret[1].upper)

ZeroFee(tx) == tx.max_fee_per_data_gas = Some(<<>>)

(* C5 (as amended): a transaction with at least one blob that keeps the
   block's blob count within MAX_BLOBS_PER_BLOCK, and with
   max_fee_per_data_gas = 0, is rejected for insufficient max fee per data
   gas at every parent accumulator value. *)
C5_ZeroFeeRejected ==
    (/\ Returned("validate_tx")
     /\ ZeroFee(args.tx)
     /\ args.blobs_before + tx_blob_count(args.tx) <= MAX_BLOBS_PER_BLOCK)
        => ret[1] = InsufficientMaxFeePerDataGas

(* a zero max fee rejected at a non-zero parent accumulator, with blobs
   already in the block *)
C5_Witness ==
    /\ Returned("validate_tx")
    /\ ZeroFee(args.tx)
    /\ args.excess_at_parent > 0
    /\ args.blobs_before > 0
    /\ ret[1] = InsufficientMaxFeePerDataGas

(* C5 (as claimed): every transaction with at least one blob and
   max_fee_per_data_gas = 0 is rejected for insufficient max fee per data
   gas. *)
C5_Original ==
    (/\ Returned("validate_tx")
     /\ ZeroFee(args.tx)
     /\ tx_blob_count(args.tx) >= 1)
        => ret[1] = InsufficientMaxFeePerDataGas

(* C10 (as amended): for a transaction with at least one blob, the fee
   divided by the transaction's total data gas is the price, with remainder
   zero. *)
C10_FeeRoundTrip ==
    (Returned("calc_data_fee") /\ tx_blob_count(args.tx) >= 1) =>
        /\ ret[1].raised = None
        /\ ret[1].quot = Some(get_data_gasprice(args.excess_data_gas))
        /\ ret[1].rem = Some(<<>>)

(* several blobs at a price above the minimum *)
C10_Witness ==
    /\ Returned("calc_data_fee")
    /\ tx_blob_count(args.tx) >= 2
    /\ ret[1].quot # None
    /\ BigLess(FromInt(MIN_DATA_GASPRICE), ret[1].quot[1])

(* C10 (as claimed): the same for every transaction, those without blobs
   included. *)
C10_Original ==
    Returned("calc_data_fee") =>
        /\ ret[1].raised = None
        /\ ret[1].quot = Some(get_data_gasprice(args.excess_data_gas))
        /\ ret[1].rem = Some(<<>>)

Made == fixture[1]

Judged(t) == test = t /\ fixture # None /\ verdict # None

BlockBlobs == get_total_data_gas(Made.txs[1]) \div DATA_GAS_PER_BLOB

(* C2: every test case of test_invalid_excess_data_gas_in_header declares a
   header excess data gas other than calc_excess_data_gas(parent, new_blobs):
   generate() never raises, and each block is rejected for the excess data
   gas mismatch, the exception the fixture expects. *)
C2_HeaderCasesRejected ==
    (test = "test_invalid_excess_data_gas_in_header" /\ fixture # None) =>
        /\ Made.raised = None
        /\ Made.rlp_modifier # None
        /\ Made.rlp_modifier[1] #
               calc_excess_data_gas(Made.genesis_environment, BlockBlobs)
        /\ Made.exception = Some(ExcessBlobGasMismatch)
        /\ verdict # None => verdict = Some(ExcessBlobGasMismatch)

(* the last test case (parent of 4346 excess blobs, no blobs, delta of the
   target) has been generated and its block rejected *)
C2_Witness ==
    /\ Judged("test_invalid_excess_data_gas_in_header")
    /\ Made.genesis_environment = 4346 * DATA_GAS_PER_BLOB
    /\ Made.rlp_modifier = Some(4348 * DATA_GAS_PER_BLOB)
    /\ verdict = Some(ExcessBlobGasMismatch)
    /\ next_case = Len(invalid_excess_data_gas_in_header_test_cases) + 1

FailedTx == Made.txs[tx_idx + 1]

(* C6 (as claimed): a blob transaction whose max_fee_per_data_gas covers the
   parent-derived price and whose sender is short of the cost is rejected for
   insufficient balance, and that is the reason the test case declares for
   it. *)
C6_Original ==
    (/\ Judged("test_invalid_blob_txs")
     /\ tx_idx < Len(Made.txs)
     /\ FailedTx.max_fee_per_data_gas # None
     /\ BigLeq(get_data_gasprice(Made.genesis_environment),
               FailedTx.max_fee_per_data_gas[1])
     /\ blobs_so_far + tx_blob_count(FailedTx) <= MAX_BLOBS_PER_BLOCK
     /\ BigLess(work.sender, tx_cost(FailedTx, Made.genesis_environment)))
        => /\ verdict = Some(InsufficientBalance)
           /\ Made.exception = Some(InsufficientBalance)
           /\ FailedTx.error = Some(InsufficientBalance)

PostExcess == calc_excess_data_gas(Made.genesis_environment, BlockBlobs)

(* C7: the transaction of a test_excess_data_gas_calc block offers exactly
   the price at the parent's accumulator and its sender holds exactly the
   cost at that price; the block is accepted and the sender is left with
   nothing, also when the accumulator the block produces has a higher price,
   at which the same transaction would be refused. *)
C7_PricedAtParent ==
    Judged("test_excess_data_gas_calc") =>
        /\ verdict = Some(Valid)
        /\ state.sender = <<>>
        /\ Made.post = Some(state.destination)
        /\ BlockBlobs > 0 =>
               Made.txs[1].max_fee_per_data_gas =
                   Some(get_data_gasprice(Made.genesis_environment))
        /\ BigLess(get_data_gasprice(Made.genesis_environment),
                   get_data_gasprice(PostExcess))
               => validate_tx(Made.txs[1], PostExcess, 0, Made.pre) # Accepted

(* parent of 376 excess blobs with 3 new blobs: accepted although the
   price at the new accumulator is higher *)
C7_Witness ==
    /\ Judged("test_excess_data_gas_calc")
    /\ Made.genesis_environment = 376 * DATA_GAS_PER_BLOB
    /\ BlockBlobs = 3
    /\ verdict = Some(Valid)
    /\ BigLess(get_data_gasprice(Made.genesis_environment),
               get_data_gasprice(PostExcess))

(* C8: a transaction is refused for too many blobs exactly when its blobs
   take the block's running blob count above MAX_BLOBS_PER_BLOCK; in the
   test cases that expect too_many_blobs the transaction refused is the only
   one that carries the error, the last one. *)
C8_TooManyBlobs ==
    (fixture # None /\ verdict # None) =>
        /\ blobs_so_far <= MAX_BLOBS_PER_BLOCK
        /\ verdict = Some(TooManyBlobs) <=>
               /\ tx_idx < Len(Made.txs)
               /\ blobs_so_far + tx_blob_count(FailedTx) > MAX_BLOBS_PER_BLOCK
        /\ Made.exception = Some(TooManyBlobs) =>
               /\ verdict = Some(TooManyBlobs)
               /\ tx_idx + 1 = Len(Made.txs)
               /\ \A k \in 1..Len(Made.txs) :
                      Made.txs[k].error =
                          IF k = tx_idx + 1 THEN Some(TooManyBlobs) ELSE None

(* five transactions of one blob each: the fifth is refused *)
C8_Witness ==
    /\ Judged("test_invalid_blob_txs")
    /\ Len(Made.txs) = 5
    /\ tx_idx = 4 /\ blobs_so_far = MAX_BLOBS_PER_BLOCK
    /\ verdict = Some(TooManyBlobs)

PreState == [sender |-> Made.pre, destination |-> <<>>]

(* C9: a block is accepted only if every transaction passed and the header's
   accumulator is the expected one; until then, and whenever the block is
   rejected, the committed state is the pre-state, whatever the transactions
   before the failing one did.  A block the fixture expects to fail is
   rejected. *)
C9_BlockAtomic ==
    (pc = "block" \/ verdict # None) =>
        /\ verdict # Some(Valid) => state = PreState
        /\ verdict = Some(Valid) =>
               /\ tx_idx = Len(Made.txs)
               /\ declared_excess(Made, PostExcess) = PostExcess
               /\ state = work
        /\ (verdict # None /\ Made.exception # None) =>
               /\ verdict # Some(Valid)
               /\ Made.post = None

(* a block rejected at its fifth transaction: the work of the four before it
   is not in the committed state *)
C9_Witness ==
    /\ verdict # None /\ verdict # Some(Valid)
    /\ tx_idx = 4
    /\ work # state
    /\ state = PreState


(* C11: calc_excess_data_gas is monotone in the blob count: for one parent
   excess and two blob counts lower <= upper, the result at lower is at most
   the result at upper, also when lower takes the branch that returns 0 and
   upper the branch that subtracts the target. *)
C11_MonotoneInBlobs ==
    Returned("calc_excess_data_gas") => ret[1].lower <= ret[1].upper

(* the two blob counts fall on the two sides of the branch: a positive
   parent excess drained to 0 at the lower count, a positive result at the
   upper count *)
C11_Witness ==
    /\ Returned("calc_excess_data_gas")
    /\ args.parent_excess_data_gas > 0
    /\ args.parent_excess_data_gas + args.lower * DATA_GAS_PER_BLOB
           < TARGET_DATA_GAS_PER_BLOCK
    /\ args.parent_excess_data_gas + args.upper * DATA_GAS_PER_BLOB
           > TARGET_DATA_GAS_PER_BLOCK
    /\ ret[1].lower = 0
    /\ ret[1].upper > 0

(* C12: a call of fake_exponential with factor >= 0, numerator >= 0 and
   denominator > 0 terminates: the loop is left and the call returns, also
   when numerator is much larger than denominator; and on every iteration
   where denominator * i exceeds numerator, a positive numerator_accumulator
   strictly decreases. *)
C12_Terminates ==
    /\ <>(fn = "fake_exponential" /\ ret # None)
    /\ [][(/\ fn = "fake_exponential" /\ frame # None /\ frame' # None
           /\ frame'[1].i = frame[1].i + 1
           /\ BigLess(args.numerator,
                      BigMul(args.denominator, FromInt(frame[1].i))))
          => BigLess(frame'[1].numerator_accumulator,
                     frame[1].numerator_accumulator)]_vars

(* a call has returned whose numerator is at least ten times its denominator:
   the terms first grew (the sum is above 1000 times the factor) and the loop
   ran past the point where denominator * i exceeds numerator *)
C12_Witness ==
    /\ fn = "fake_exponential" /\ ret # None
    /\ BigLeq(BigMul(FromInt(10), args.denominator), args.numerator)
    /\ BigLess(<<>>, args.factor)
    /\ BigLess(BigMul(FromInt(1000), args.factor), ret[1])
    /\ BigLess(args.numerator,
               BigMul(args.denominator, FromInt(frame[1].i)))
    /\ frame[1].numerator_accumulator = <<>>

(* C13: a block with 0..MAX_BLOBS_PER_BLOCK blobs moves the accumulator by at
   most TARGET_DATA_GAS_PER_BLOCK in either direction:
   parent - TARGET_DATA_GAS_PER_BLOCK <= calc_excess_data_gas(parent, blobs)
   <= parent + TARGET_DATA_GAS_PER_BLOCK, and a parent excess above
   TARGET_DATA_GAS_PER_BLOCK does not drop to 0 in one block. *)
C13_BoundedChange ==
    (last_block # None /\ LastBlobs \in 0..MAX_BLOBS_PER_BLOCK) =>
        /\ LastParent - TARGET_DATA_GAS_PER_BLOCK <= head_excess
        /\ head_excess <= LastParent + TARGET_DATA_GAS_PER_BLOCK
        /\ LastParent > TARGET_DATA_GAS_PER_BLOCK => head_excess > 0

(* a block without blobs on a parent above the target takes the whole target
   off and leaves a positive excess *)
C13_Witness ==
    /\ last_block # None
    /\ LastBlobs = 0
    /\ LastParent > TARGET_DATA_GAS_PER_BLOCK
    /\ head_excess = LastParent - TARGET_DATA_GAS_PER_BLOCK
    /\ head_excess > 0

(* C14: with the fixed constants get_data_gasprice_from_blobs(n) is 1 for
   every n from 0 to 11 and 2 for n = 12 and n = 15; a blob transaction with
   max_fee_per_data_gas = 1 against a parent of 15 excess blobs is below the
   price and is rejected for insufficient max fee per data gas. *)
C14_PriceTable ==
    Returned("get_data_gasprice_from_blobs") =>
        /\ args.excess_blobs \in 0..11 => ret[1].price = FromInt(1)
        /\ args.excess_blobs \in {12, 15} => ret[1].price = FromInt(2)
        /\ args.excess_blobs = 15 =>
               /\ BigLess(FromInt(1), ret[1].price)
               /\ ret[1].verdict = InsufficientMaxFeePerDataGas

(* the call for 15 excess blobs has returned the price 2 and the rejection *)
C14_Witness ==
    /\ Returned("get_data_gasprice_from_blobs")
    /\ args.excess_blobs = 15
    /\ ret[1].price = FromInt(2)
    /\ ret[1].verdict = InsufficientMaxFeePerDataGas

=========================================================================
